---------------------------- MODULE Spec2Model ----------------------------
(***************************************************************************)
(* privacycow: the template name generator (generate_realish_name,         *)
(* validate_username), the readable random strings                         *)
(* (readable_random_string, generate_mailcow_username) and the interactive *)
(* flow of the add command (add, pick_username, pick_domain).              *)
(*                                                                         *)
(* A text is a sequence of one-character strings.  The name provider       *)
(* (Faker) and the random draws are the environment: each draw is a        *)
(* nondeterministic choice.                                                *)
(***************************************************************************)
EXTENDS Integers, Sequences, FiniteSets, TLC

VARIABLES
    \* generate_realish_name
    arg,            \* the template the call was given
    template,       \* the local template, rewritten placeholder by placeholder
    parts,          \* re.findall's result
    idx,            \* position of the for loop in parts
    part,           \* the loop variable after part.split(':')
    generated,      \* the local generated (None before the first draw)
    known,          \* the dict known: part kind -> accepted fragments
    accepted,       \* history: the fragment accepted for parts[i], None if skipped
    gpc,            \* where the call is
    \* add / pick_username / pick_domain
    TEMPLATE, automatic, random_domain,
    pc, address, domain_to_use, usernames,
    raised,         \* the exception that ended the command
    posted,         \* the create-alias request was sent
    rejected,       \* history: validate_username raised SystemExit in this run
    interrupts,     \* history: the prompts at which the user pressed Ctrl-C
    \* single calls of readable_random_string, generate_mailcow_username and
    \* validate_username
    fn,             \* the function called
    length,         \* the argument of readable_random_string
    typed,          \* the argument of validate_username
    result,         \* the string returned
    verdict         \* validate_username: "returned" or "SystemExit"

genvars == <<arg, template, parts, idx, part, generated, known, accepted,
             gpc>>
addvars == <<TEMPLATE, automatic, random_domain, pc, address, domain_to_use,
             usernames, raised, posted, rejected, interrupts>>
rndvars == <<fn, length, typed, result, verdict>>
vars == <<genvars, addvars, rndvars>>

----------------------------------------------------------------------------
(* Bounds of the model *)

\* templates are built from at most MaxPieces pieces
MaxPieces == 3
\* randrange draws one of the first MaxNumberDraws values of its range
MaxNumberDraws == 3
\* choice(CONSONANTS) draws one of the first MaxConsonantDraws letters
MaxConsonantDraws == 2
\* choice(VOWELS) draws one of the first MaxVowelDraws letters
MaxVowelDraws == 1
\* randint(3, 9) draws one of the first MaxRandintDraws values
MaxRandintDraws == 1
\* readable_random_string is called with lengths 0..MaxLength
MaxLength == 8
\* the user types at most MaxTypedLen characters
MaxTypedLen == 3

----------------------------------------------------------------------------
(* Characters *)

None == <<"None">>

LowerCase == <<"a","b","c","d","e","f","g","h","i","j","k","l","m",
               "n","o","p","q","r","s","t","u","v","w","x","y","z">>
UpperCase == <<"A","B","C","D","E","F","G","H","I","J","K","L","M",
               "N","O","P","Q","R","S","T","U","V","W","X","Y","Z">>
Digits == <<"0","1","2","3","4","5","6","7","8","9">>

Range(s) == {s[i] : i \in DOMAIN s}

\* the non-ASCII letters of the model
Accented == {"é"}

\* \w of Python's re on str: letters, digits and the underscore
WordChars == Range(LowerCase) \cup Range(UpperCase) \cup Range(Digits)
             \cup {"_"} \cup Accented

\* the class [\w:-] of the placeholder pattern
PlaceholderChars == WordChars \cup {":", "-"}

\* the ASCII characters \x01-\x7f that the model writes
Ascii == Range(LowerCase) \cup Range(UpperCase) \cup Range(Digits)
         \cup {"!", "#", "$", "%", "&", "'", "*", "+", "/", "=", "?", "^",
               "_", "{", "|", "}", "~", "-", ".", ",", ":", ";", "<",
               ">", "(", ")", "[", "]", "@", " ", "\"", "\\", "\t", "\n",
               "\r"}

----------------------------------------------------------------------------
(* str and re primitives *)

\* the last index of the longest run of characters of class starting at i
\* (i - 1 when t[i] is not in the class)
RECURSIVE RunEnd(_, _, _)
RunEnd(t, i, class) ==
    IF i <= Len(t) /\ t[i] \in class THEN RunEnd(t, i + 1, class) ELSE i - 1

\* re.findall(r'{([\w:-]+)}', t): from[i] is the scan from position i
findall(t) ==
    LET from[i \in 1..(Len(t) + 1)] ==
            IF i > Len(t) THEN <<>>
            ELSE IF t[i] = "{"
                 THEN LET j == RunEnd(t, i + 1, PlaceholderChars) IN
                      IF j > i /\ j + 1 <= Len(t) /\ t[j + 1] = "}"
                      THEN <<SubSeq(t, i + 1, j)>> \o from[j + 2]
                      ELSE from[i + 1]
                 ELSE from[i + 1]
    IN from[1]

\* the first index >= i at which character c stands in s, Len(s) + 1 if none
RECURSIVE IndexOf(_, _, _)
IndexOf(s, c, i) ==
    IF i > Len(s) THEN Len(s) + 1
    ELSE IF s[i] = c THEN i ELSE IndexOf(s, c, i + 1)

\* s.split(sep) for a one-character separator: from[i] splits s[i:]
split(s, sep) ==
    LET from[i \in 1..(Len(s) + 1)] ==
            LET k == IndexOf(s, sep, i) IN
            IF k > Len(s) THEN <<SubSeq(s, i, Len(s))>>
            ELSE <<SubSeq(s, i, k - 1)>> \o from[k + 1]
    IN from[1]

\* sep.join(tokens)
RECURSIVE join(_, _)
join(tokens, sep) ==
    IF Len(tokens) = 0 THEN <<>>
    ELSE IF Len(tokens) = 1 THEN tokens[1]
    ELSE tokens[1] \o <<sep>> \o join(Tail(tokens), sep)

\* the first index >= i at which old occurs in s, 0 if none
RECURSIVE find(_, _, _)
find(s, old, i) ==
    IF i + Len(old) - 1 > Len(s) THEN 0
    ELSE IF SubSeq(s, i, i + Len(old) - 1) = old THEN i
    ELSE find(s, old, i + 1)

\* s.replace(old, new, 1)
replace_first(s, old, new) ==
    LET k == find(s, old, 1) IN
    IF k = 0 THEN s
    ELSE SubSeq(s, 1, k - 1) \o new \o SubSeq(s, k + Len(old), Len(s))

\* re.sub(r'[^\w]+', '', s)
sub_nonword(s) == SelectSeq(s, LAMBDA c : c \in WordChars)

DigitValue(c) == (CHOOSE i \in DOMAIN Digits : Digits[i] = c) - 1

\* whether int(tok) succeeds: an optional sign, then digits, single underscores
\* allowed between digits
IsDigits(s) ==
    /\ Len(s) >= 1
    /\ s[1] \in Range(Digits)
    /\ s[Len(s)] \in Range(Digits)
    /\ \A i \in DOMAIN s : s[i] \in Range(Digits) \cup {"_"}
    /\ \A i \in 1..(Len(s) - 1) : ~(s[i] = "_" /\ s[i + 1] = "_")

IsInt(tok) ==
    IF Len(tok) >= 1 /\ tok[1] \in {"-", "+"}
    THEN IsDigits(Tail(tok))
    ELSE IsDigits(tok)

RECURSIVE DigitsValue(_, _)
DigitsValue(s, acc) ==
    IF Len(s) = 0 THEN acc
    ELSE IF s[1] = "_" THEN DigitsValue(Tail(s), acc)
    ELSE DigitsValue(Tail(s), 10 * acc + DigitValue(s[1]))

\* int(tok), for a tok with IsInt(tok)
int(tok) ==
    IF tok[1] = "-" THEN 0 - DigitsValue(Tail(tok), 0)
    ELSE IF tok[1] = "+" THEN DigitsValue(Tail(tok), 0)
    ELSE DigitsValue(tok, 0)

\* str(n)
RECURSIVE StrNat(_)
StrNat(n) ==
    IF n < 10 THEN <<Digits[n + 1]>>
    ELSE StrNat(n \div 10) \o <<Digits[(n % 10) + 1]>>

str(n) == IF n < 0 THEN <<"-">> \o StrNat(0 - n) ELSE StrNat(n)

\* unidecode of one character: ASCII is kept, an accented letter loses its accent
unidecode_char(c) == IF c = "é" THEN <<"e">> ELSE <<c>>

\* str.lower of one character
lower_char(c) ==
    IF c \in Range(UpperCase)
    THEN LowerCase[CHOOSE i \in DOMAIN UpperCase : UpperCase[i] = c]
    ELSE c

RECURSIVE unidecode(_)
unidecode(s) ==
    IF Len(s) = 0 THEN <<>> ELSE unidecode_char(s[1]) \o unidecode(Tail(s))

lower(s) == [i \in DOMAIN s |-> lower_char(s[i])]

\* unidecode(template).lower()
normalize(s) == lower(unidecode(s))


----------------------------------------------------------------------------
(* Program constants *)

VOWELS == <<"a","e","i","o","u">>
CONSONANTS == <<"b","c","d","f","g","h","j","k","l","m","n",
                "p","q","r","s","t","v","w","x","y","z">>

number == <<"n","u","m","b","e","r">>
prefix == <<"p","r","e","f","i","x">>
first_name == <<"f","i","r","s","t","_","n","a","m","e">>
last_name == <<"l","a","s","t","_","n","a","m","e">>
suffix == <<"s","u","f","f","i","x">>

\* the keys of the dict known
KnownKinds == {number, prefix, first_name, last_name, suffix}

\* gender.get(tok, '')
gender_get(tok) ==
    IF tok = <<"f">> THEN "_female"
    ELSE IF tok = <<"m">> THEN "_male"
    ELSE IF tok = <<"n">> THEN "_nonbinary"
    ELSE ""

----------------------------------------------------------------------------
(* The name provider: Faker(lang) and its person methods.  The lists are a  *)
(* few entries of the provider's data; a title can belong to more than one  *)
(* gender variant.                                                          *)

fr == <<"f","r">>
en_GB == <<"e","n","-","G","B">>

\* Faker(lang, use_weighting=False), with the except AttributeError fallback:
\* the locale of the provider the call ends up with
Faker(lang) ==
    IF lang = fr THEN "fr_FR"
    ELSE IF lang = en_GB THEN "en_GB"
    ELSE "en_US"

Dr == <<"D","r",".">>
Mr == <<"M","r",".">>
Mrs == <<"M","r","s",".">>
Mx == <<"M","x",".">>

\* getattr(fake, f'{name}{sex}').__call__(): the values the call can return
Provider(locale, name, sex) ==
    IF name = prefix THEN
        IF sex = "_female" THEN {Mrs, Dr}
        ELSE IF sex = "_male" THEN {Mr, Dr}
        ELSE IF sex = "_nonbinary" THEN {Mx, Dr}
        ELSE {Mr, Mrs, Dr}
    ELSE IF name = first_name THEN
        IF locale = "fr_FR" THEN {<<"Z","o","é">>}
        ELSE IF sex = "_female" THEN {<<"A","n","n">>}
        ELSE IF sex = "_male" THEN {<<"B","o","b">>}
        ELSE {<<"A","n","n">>, <<"B","o","b">>}
    ELSE IF name = last_name THEN {<<"L","e","e">>, <<"O","'","D","e","a">>}
    ELSE IF sex = "_female" THEN {<<"M","D">>}
    ELSE IF sex = "_male" THEN {<<"J","r",".">>}
    ELSE {<<"M","D">>, <<"J","r",".">>}

----------------------------------------------------------------------------
(* generate_realish_name: the locals of one pass of the for loop *)

\* part = part.split(':')
part_of(p) == split(p, ":")

\* sex, lines 336-343
sex_of(toks) == IF Len(toks) > 1 THEN gender_get(toks[2]) ELSE ""

\* lang, lines 336-343
lang_of(toks) ==
    IF Len(toks) > 1
    THEN LET lang1 == IF sex_of(toks) = "" THEN toks[2] ELSE None IN
         IF lang1 = None /\ Len(toks) > 2 THEN toks[3] ELSE lang1
    ELSE None

\* the list comprehension [int(ppp) for ppp in toks]: the integers, or the
\* ValueError of the first token that is no integer
ints_of(toks) ==
    IF \A i \in DOMAIN toks : IsInt(toks[i])
    THEN [exc |-> "none", list |-> [i \in DOMAIN toks |-> int(toks[i])]]
    ELSE [exc |-> "ValueError", list |-> <<>>]

\* the list range of lines 356-364, before range[1] += 1
range_of(toks) ==
    IF lang_of(toks) = None
    THEN IF Len(toks) = 3 THEN ints_of(SubSeq(toks, 2, 3))
         ELSE IF Len(toks) = 2
              THEN LET r == ints_of(SubSeq(toks, 2, 2)) IN
                   IF r.exc = "none"
                   THEN [exc |-> "none", list |-> <<0>> \o r.list]
                   ELSE r
              ELSE [exc |-> "none", list |-> <<0, 1000>>]
    ELSE ints_of(toks)

\* randrange(*r) after r[1] += 1: the exception it raises, or the values it
\* can return, of which the model draws the first MaxNumberDraws
number_draws(toks) ==
    LET r == range_of(toks) IN
    IF r.exc # "none" THEN [exc |-> r.exc, values |-> {}]
    ELSE IF Len(r.list) # 2 THEN [exc |-> "TypeError", values |-> {}]
    ELSE LET lo == r.list[1]
             hi == r.list[2] + 1 IN
         IF lo >= hi THEN [exc |-> "ValueError", values |-> {}]
         ELSE [exc |-> "none",
               values |-> {v \in lo..(hi - 1) : v < lo + MaxNumberDraws}]

\* what one pass of the while body can assign to generated, lines 355-369
candidates(toks) ==
    IF toks[1] = number
    THEN {str(v) : v \in number_draws(toks).values}
    ELSE {sub_nonword(raw) :
            raw \in Provider(Faker(lang_of(toks)), toks[1], sex_of(toks))}

\* the exception the while body raises for this part, "none" if it raises none
body_exception(toks) ==
    IF toks[1] = number THEN number_draws(toks).exc ELSE "none"

\* variant: the placeholder text without its braces
placeholder_unbraced(toks) == join(toks, ":")

\* f"{{{':'.join(part)}}}"
placeholder(toks) == <<"{">> \o join(toks, ":") \o <<"}">>

\* variant: the while condition without its uniqueness test
loop_again_none_only(g, seen) == g = None

\* variant: a while condition that no draw ends
loop_again_forever(g, seen) == TRUE

\* the while condition, line 354
loop_again(g, seen) == g = None \/ g \in Range(seen)

----------------------------------------------------------------------------
(* validate_username *)

\* [a-z0-9!#$%&'*+/=?^_{|}~-], the class of the first atom (line 387)
AtomFirst == Range(LowerCase) \cup Range(Digits)
             \cup {"!", "#", "$", "%", "&", "'", "*", "+", "/", "=", "?",
                   "^", "_", "{", "|", "}", "~", "-"}

\* [a-z0-9!#$%&'*+/=^_{|}~-], the class of the atoms after a dot (line 387)
AtomNext == Range(LowerCase) \cup Range(Digits)
            \cup {"!", "#", "$", "%", "&", "'", "*", "+", "/", "=",
                  "^", "_", "{", "|", "}", "~", "-"}

\* [\x01-\x08\x0b\x0c\x0e-\x1f\x21\x23-\x5b\x5d-\x7f]
QText == Ascii \ {"\t", "\n", "\r", " ", "\"", "\\"}

\* [\x01-\x09\x0b\x0c\x0e-\x7f], the character after a backslash
QPair == Ascii \ {"\n", "\r"}

\* atom(\.atom)* as a full match
unquoted(s) ==
    LET atoms == split(s, ".") IN
    /\ \A i \in DOMAIN atoms : Len(atoms[i]) >= 1
    /\ Range(atoms[1]) \subseteq AtomFirst
    /\ \A i \in 2..Len(atoms) : Range(atoms[i]) \subseteq AtomNext

\* (?:qtext|\\qpair)* as a full match
RECURSIVE quoted_body(_)
quoted_body(b) ==
    IF Len(b) = 0 THEN TRUE
    ELSE IF b[1] \in QText THEN quoted_body(Tail(b))
    ELSE IF b[1] = "\\" /\ Len(b) >= 2 /\ b[2] \in QPair
         THEN quoted_body(SubSeq(b, 3, Len(b)))
         ELSE FALSE

quoted(s) ==
    /\ Len(s) >= 2
    /\ s[1] = "\""
    /\ s[Len(s)] = "\""
    /\ quoted_body(SubSeq(s, 2, Len(s) - 1))

\* re.fullmatch(username, s)
fullmatch_username(s) == unquoted(s) \/ quoted(s)

\* variant: a validator that returns whatever it is given
validate_username_never_raises(s) == "returned"

\* validate_username(s): "returned" (s itself) or the SystemExit it raises
validate_username(s) ==
    IF ~fullmatch_username(s) THEN "SystemExit" ELSE "returned"

----------------------------------------------------------------------------
(* readable_random_string, generate_mailcow_username *)

Min(a, b) == IF a <= b THEN a ELSE b

\* choice(s): the letters the model draws
choice(s, draws) == {s[i] : i \in 1..Min(draws, Len(s))}

\* variant: the loop body with its two lines swapped, vowel first
RECURSIVE loop_rrs_vowel_first(_)
loop_rrs_vowel_first(n) ==
    IF n = 0 THEN {<<>>}
    ELSE {s \o <<v>> \o <<c>> :
            s \in loop_rrs_vowel_first(n - 1),
            c \in choice(CONSONANTS, MaxConsonantDraws),
            v \in choice(VOWELS, MaxVowelDraws)}

\* the values of string after n passes of the loop, lines 277-279
RECURSIVE loop_rrs(_)
loop_rrs(n) ==
    IF n = 0 THEN {<<>>}
    ELSE {s \o <<c>> \o <<v>> :
            s \in loop_rrs(n - 1),
            c \in choice(CONSONANTS, MaxConsonantDraws),
            v \in choice(VOWELS, MaxVowelDraws)}

\* readable_random_string(n): the strings it can return
readable_random_string(n) == loop_rrs(n \div 2)

\* randint(a, b): the values the model draws
randint(a, b) == {n \in a..b : n < a + MaxRandintDraws}

\* generate_mailcow_username(): the usernames it can return
generate_mailcow_username ==
    {x \o <<".">> \o y :
        x \in UNION {readable_random_string(n) : n \in randint(3, 9)},
        y \in UNION {readable_random_string(n) : n \in randint(3, 9)}}

----------------------------------------------------------------------------
(* The templates the model is run on *)

brace(body) == <<"{">> \o body \o <<"}">>

\* the building blocks: literal text, stray braces, placeholders
Pieces ==
    { <<"a">>, <<"A">>, <<".">>, <<"{">>, <<"}">>,
      brace(number),
      brace(number \o <<":","1",":","2">>),
      brace(number \o <<":","2">>),
      brace(prefix \o <<":","f">>),
      brace(prefix \o <<":","m">>),
      brace(first_name \o <<":">> \o fr),
      brace(suffix \o <<":","m">>) }

\* the placeholders of known kinds whose while loop draws
LoopPieces ==
    { brace(number),
      brace(prefix \o <<":","f">>),
      brace(prefix \o <<":","m">>),
      brace(suffix \o <<":","m">>) }

\* the texts of at most n of the pieces
RECURSIVE Compose(_, _)
Compose(n, pieces) ==
    IF n = 0 THEN {<<>>}
    ELSE LET shorter == Compose(n - 1, pieces) IN
         shorter \cup {s \o p : s \in shorter, p \in pieces}

\* the examples of the docstring (lines 296-309) and of the specification
Examples ==
    { brace(first_name),
      brace(first_name \o <<":","f",":">> \o en_GB),
      brace(first_name \o <<":","m">>),
      brace(number \o <<":","1",":","1","0","0">>),
      brace(number \o <<":","9","9","9">>),
      brace(first_name) \o <<".">> \o brace(last_name),
      <<"a">> \o brace(number \o <<":","1",":","1">>) \o <<"b">>
          \o brace(number \o <<":","1",":","1">>),
      brace(prefix \o <<":">> \o brace(number)) \o brace(prefix \o <<":","1">>),
      brace(prefix) \o brace(prefix) \o brace(prefix) \o brace(prefix) }

Templates == Compose(MaxPieces, Pieces) \cup Examples

\* the templates of the retry loop: placeholders only
LoopTemplates == Compose(MaxPieces, LoopPieces) \cup Examples

----------------------------------------------------------------------------
(* Idle values of the three groups of variables *)

EmptyKnown == [k \in KnownKinds |-> <<>>]

GenIdle ==
    /\ arg = <<>> /\ template = <<>> /\ parts = <<>> /\ idx = 1
    /\ part = <<>>
    /\ generated = None /\ known = EmptyKnown /\ accepted = <<>>
    /\ gpc = "idle"

AddIdle ==
    /\ TEMPLATE = None /\ automatic = FALSE /\ random_domain = FALSE
    /\ pc = "idle" /\ address = None /\ domain_to_use = "None"
    /\ usernames = <<>> /\ raised = "none"
    /\ posted = FALSE /\ rejected = FALSE /\ interrupts = {}

RndIdle ==
    /\ fn = "idle" /\ length = 0 /\ typed = <<>> /\ result = <<>>
    /\ verdict = "none"

addvars_but_rejected ==
    <<TEMPLATE, automatic, random_domain, pc, address, domain_to_use,
      usernames, raised, posted, interrupts>>

----------------------------------------------------------------------------
(* generate_realish_name, lines 283-379 *)


\* lines 313-326: the dicts, and re.findall
FindAll ==
    /\ gpc = "call"
    /\ parts' = findall(template)
    /\ known' = EmptyKnown
    /\ idx' = 1
    /\ generated' = None
    /\ accepted' = <<>>
    /\ gpc' = "for"
    /\ UNCHANGED <<arg, template, part>>
    /\ UNCHANGED <<addvars, rndvars>>

\* lines 327-353: the next part, up to the while loop; a part of an unknown
\* kind is skipped; after the last part the loop ends
ForPart ==
    /\ gpc = "for"
    /\ IF idx > Len(parts)
       THEN /\ gpc' = "normalize"
            /\ UNCHANGED <<idx, part, generated, accepted>>
       ELSE /\ part' = part_of(parts[idx])
            /\ IF part'[1] \notin KnownKinds
               THEN /\ idx' = idx + 1
                    /\ accepted' = Append(accepted, None)
                    /\ UNCHANGED <<gpc, generated>>
               ELSE /\ generated' = None
                    /\ gpc' = "while"
                    /\ UNCHANGED <<idx, accepted>>
    /\ UNCHANGED <<arg, template, parts, known>>
    /\ UNCHANGED <<addvars, rndvars>>

\* one pass of the while body drawing g, the loop test, and when the loop
\* ends lines 370-373
Draw(g) ==
    /\ gpc = "while"
    /\ body_exception(part) = "none"
    /\ g \in candidates(part)
    /\ generated' = g
    /\ IF loop_again(g, known[part[1]])
       THEN UNCHANGED <<known, template, accepted, idx, gpc>>
       ELSE /\ known' = [known EXCEPT ![part[1]] = Append(@, g)]
            /\ template' = replace_first(template, placeholder(part), g)
            /\ accepted' = Append(accepted, g)
            /\ idx' = idx + 1
            /\ gpc' = "for"
    /\ UNCHANGED <<arg, parts, part>>
    /\ UNCHANGED <<addvars, rndvars>>

\* lines 354-366 raising: int() of a token that is no integer, or randrange
Raise ==
    /\ gpc = "while"
    /\ body_exception(part) # "none"
    /\ gpc' = body_exception(part)
    /\ UNCHANGED <<arg, template, parts, idx, part, generated, known,
                   accepted>>
    /\ UNCHANGED <<addvars, rndvars>>

WhileGenerate ==
    /\ gpc = "while"
    /\ (Raise \/ \E g \in candidates(part) : Draw(g))

\* line 376
Normalize ==
    /\ gpc = "normalize"
    /\ template' = normalize(template)
    /\ gpc' = "validate"
    /\ UNCHANGED <<arg, parts, idx, part, generated, known, accepted>>
    /\ UNCHANGED <<addvars, rndvars>>

\* line 379: return validate_username(template)
Validate ==
    /\ gpc = "validate"
    /\ gpc' = validate_username(template)
    /\ rejected' = (rejected \/ validate_username(template) = "SystemExit")
    /\ UNCHANGED <<arg, template, parts, idx, part, generated, known,
                   accepted>>
    /\ UNCHANGED <<addvars_but_rejected, rndvars>>

Generate == FindAll \/ ForPart \/ WhileGenerate \/ Normalize \/ Validate

\* the call has ended: a value or an exception
GenDone == gpc \in {"returned", "SystemExit", "ValueError", "TypeError"}

InitGen ==
    /\ arg \in Templates
    /\ template = arg
    /\ parts = <<>> /\ idx = 1 /\ part = <<>> /\ generated = None
    /\ known = EmptyKnown /\ accepted = <<>>
    /\ gpc = "call"
    /\ AddIdle /\ RndIdle

NextGen == Generate

SpecGen == InitGen /\ [][NextGen]_vars

\* a pass of the while body whose draw ends the loop
DrawFresh ==
    /\ gpc = "while"
    /\ \E g \in candidates(part) :
          /\ ~loop_again(g, known[part[1]])
          /\ Draw(g)

\* generate_realish_name is called with one of the templates of the loop
CallGenerate ==
    /\ gpc = "idle"
    /\ \E t \in LoopTemplates : arg' = t /\ template' = t
    /\ gpc' = "call"
    /\ UNCHANGED <<parts, idx, part, generated, known, accepted>>
    /\ UNCHANGED <<addvars, rndvars>>

InitGenFair == GenIdle /\ AddIdle /\ RndIdle

NextGenFair == CallGenerate \/ Generate

\* the call runs on, and a fair source of randomness sooner or later draws
\* a value that ends the while loop when there is one
SpecGenFair ==
    /\ InitGenFair
    /\ [][NextGenFair]_vars
    /\ WF_vars(FindAll \/ ForPart \/ Raise \/ Normalize \/ Validate)
    /\ WF_vars(DrawFresh)

----------------------------------------------------------------------------
(* Calls of readable_random_string and generate_mailcow_username *)

\* the characters the user types under 'choose my own'
TypedChars == {"a", ".", "?", "\"", "\\", " "}

RECURSIVE Texts(_)
Texts(n) ==
    IF n = 0 THEN {<<>>}
    ELSE LET shorter == Texts(n - 1) IN
         shorter \cup {t \o <<c>> : t \in shorter, c \in TypedChars}

CallReadable ==
    /\ fn = "idle"
    /\ \E n \in 0..MaxLength :
         \E s \in readable_random_string(n) :
            /\ fn' = "readable_random_string"
            /\ length' = n
            /\ result' = s
    /\ UNCHANGED <<typed, verdict>>
    /\ UNCHANGED <<genvars, addvars>>

CallMailcow ==
    /\ fn = "idle"
    /\ \E u \in generate_mailcow_username :
            /\ fn' = "generate_mailcow_username"
            /\ result' = u
    /\ UNCHANGED <<length, typed, verdict>>
    /\ UNCHANGED <<genvars, addvars>>

CallValidate ==
    /\ fn = "idle"
    /\ \E t \in Texts(MaxTypedLen) :
            /\ fn' = "validate_username"
            /\ typed' = t
            /\ verdict' = validate_username(t)
            /\ result' = IF validate_username(t) = "returned" THEN t ELSE <<>>
    /\ UNCHANGED length
    /\ UNCHANGED <<genvars, addvars>>

InitRnd == GenIdle /\ AddIdle /\ RndIdle

NextRnd == CallReadable \/ CallMailcow \/ CallValidate

SpecRnd == InitRnd /\ [][NextRnd]_vars

----------------------------------------------------------------------------
(* The add command, lines 122-163, with pick_username and pick_domain *)

RELAY_DOMAIN == "relay.example"

\* get_possible_domains(): RELAY_DOMAIN, then the other sections of the config
get_possible_domains == <<RELAY_DOMAIN, "other.example">>

none_of_these == <<"n","o","n","e"," ","o","f"," ","t","h","e","s","e">>
choose_my_own == <<"c","h","o","o","s","e"," ","m","y"," ","o","w","n">>
quit == <<"q","u","i","t">>

\* the values of TEMPLATE the command is run with (None: no template is set)
AddTemplates ==
    { None,
      <<".">>,
      brace(number \o <<":","1",":","2">>),
      brace(suffix \o <<":","m">>) }

\* variant: pick_username without its except SystemExit clause
pick_username_except_swallow(exc) == "fallback"

\* the order of the except clauses of pick_username, lines 432-435: what
\* becomes of an exception raised inside its try block
pick_username_except(exc) ==
    IF exc = "SystemExit" THEN "reraise" ELSE "fallback"

\* variant: a handler of the confirmation prompt that swallows the interrupt
confirm_except_pass(exc) ==
    IF exc = "KeyboardInterrupt" THEN "pass" ELSE "propagate"

\* the except clause of the confirmation prompt, lines 143-144: what it does
\* with an exception of the try block
confirm_except(exc) ==
    IF exc = "KeyboardInterrupt" THEN "SystemExit" ELSE "propagate"

\* an exception inside the try block of pick_username: re-raised, or the
\* handler of lines 434-435 is entered
Except(exc, message) ==
    IF pick_username_except(exc) = "reraise"
    THEN /\ pc' = "exit"
         /\ raised' = message
    ELSE /\ pc' = "fallback"
         /\ UNCHANGED raised

\* line 435: return generate_mailcow_username()
Fallback ==
    /\ pc = "fallback"
    /\ \E u \in generate_mailcow_username : address' = u
    /\ pc' = "confirm"
    /\ UNCHANGED <<TEMPLATE, automatic, random_domain, domain_to_use,
                   usernames, raised, posted, rejected, interrupts>>
    /\ UNCHANGED <<genvars, rndvars>>

\* lines 127-128
Start ==
    /\ pc = "start"
    /\ IF automatic
       THEN /\ \E u \in generate_mailcow_username : address' = u
            /\ domain_to_use' = RELAY_DOMAIN
       ELSE UNCHANGED <<address, domain_to_use>>
    /\ pc' = "while"
    /\ UNCHANGED <<TEMPLATE, automatic, random_domain, usernames, raised, posted, rejected, interrupts>>
    /\ UNCHANGED <<genvars, rndvars>>

\* line 129: the loop test
While ==
    /\ pc = "while"
    /\ pc' = IF address = None \/ domain_to_use = "None"
             THEN "domain" ELSE "post"
    /\ UNCHANGED <<TEMPLATE, automatic, random_domain, address, domain_to_use,
                   usernames, raised, posted, rejected,
                   interrupts>>
    /\ UNCHANGED <<genvars, rndvars>>

\* lines 130-132, with pick_domain (lines 438-447): the user picks a domain
\* or the prompt raises and RELAY_DOMAIN is used; with --random-domain a
\* random choice
PickDomain ==
    /\ pc = "domain"
    /\ IF domain_to_use = "None"
       THEN IF random_domain
            THEN \E i \in DOMAIN get_possible_domains :
                        domain_to_use' = get_possible_domains[i]
            ELSE \/ \E i \in DOMAIN get_possible_domains :
                        domain_to_use' = get_possible_domains[i]
                 \/ domain_to_use' = RELAY_DOMAIN
       ELSE UNCHANGED domain_to_use
    /\ pc' = "username"
    /\ UNCHANGED <<TEMPLATE, automatic, random_domain, address, usernames,
                   raised, posted, rejected, interrupts>>
    /\ UNCHANGED <<genvars, rndvars>>

\* lines 133-135
PickUsername ==
    /\ pc = "username"
    /\ IF address = None
       THEN IF TEMPLATE # None
            THEN /\ pc' = "pick_username"
                 /\ UNCHANGED address
            ELSE /\ \E u \in generate_mailcow_username : address' = u
                 /\ pc' = "confirm"
       ELSE /\ pc' = "confirm"
            /\ UNCHANGED address
    /\ UNCHANGED <<TEMPLATE, automatic, random_domain, domain_to_use,
                   usernames, raised, posted, rejected,
                   interrupts>>
    /\ UNCHANGED <<genvars, rndvars>>

\* pick_username, lines 411-415: the first four choices
Choices ==
    /\ pc = "pick_username"
    /\ \E u \in generate_mailcow_username :
          usernames' = <<u, none_of_these, choose_my_own, quit>>
    /\ pc' = "fill"
    /\ UNCHANGED <<TEMPLATE, automatic, random_domain, address,
                   domain_to_use, raised, posted, rejected,
                   interrupts>>
    /\ UNCHANGED <<genvars, rndvars>>

\* lines 416-417: the loop test, and the call of generate_realish_name
Fill ==
    /\ pc = "fill"
    /\ IF Len(usernames) < 13
       THEN /\ pc' = "generating"
            /\ arg' = TEMPLATE
            /\ template' = TEMPLATE
            /\ gpc' = "call"
            /\ UNCHANGED <<parts, idx, part, generated, known, accepted>>
       ELSE /\ pc' = "select"
            /\ UNCHANGED genvars
    /\ UNCHANGED <<TEMPLATE, automatic, random_domain, address,
                   domain_to_use, usernames, raised, posted,
                   rejected, interrupts>>
    /\ UNCHANGED rndvars

\* the call of generate_realish_name is over: its locals are gone
ReturnFromGenerate ==
    /\ arg' = <<>> /\ template' = <<>> /\ parts' = <<>> /\ idx' = 1
    /\ part' = <<>>
    /\ generated' = None /\ known' = EmptyKnown /\ accepted' = <<>>
    /\ gpc' = "idle"

\* line 417: the call returned, usernames.insert(0, ...)
Insert ==
    /\ pc = "generating"
    /\ gpc = "returned"
    /\ usernames' = <<template>> \o usernames
    /\ pc' = "fill"
    /\ ReturnFromGenerate
    /\ UNCHANGED <<TEMPLATE, automatic, random_domain, address,
                   domain_to_use, raised, posted, rejected,
                   interrupts>>
    /\ UNCHANGED rndvars

\* line 417: the call raised, lines 432-435
GenerateRaised ==
    /\ pc = "generating"
    /\ gpc \in {"SystemExit", "ValueError", "TypeError"}
    /\ Except(gpc, "SystemExit: not valid")
    /\ usernames' = <<>>
    /\ ReturnFromGenerate
    /\ UNCHANGED <<TEMPLATE, automatic, random_domain, address,
                   domain_to_use, posted, rejected, interrupts>>
    /\ UNCHANGED rndvars

\* lines 418-424, 428-431: the answer to 'Which username do you want to use?'
Select ==
    /\ pc = "select"
    /\ \E i \in DOMAIN usernames :
         LET answer == usernames[i] IN
         IF answer = quit
         THEN Except("SystemExit", "SystemExit: User quit.")
              /\ UNCHANGED address
         ELSE IF answer = choose_my_own
              THEN pc' = "text" /\ UNCHANGED <<address, raised>>
              ELSE IF answer = none_of_these
                   THEN pc' = "pick_username" /\ UNCHANGED <<address, raised>>
                   ELSE /\ address' = answer
                        /\ pc' = "confirm"
                        /\ UNCHANGED raised
    /\ usernames' = <<>>
    /\ UNCHANGED <<TEMPLATE, automatic, random_domain, domain_to_use,
                   posted, rejected, interrupts>>
    /\ UNCHANGED <<genvars, rndvars>>

\* line 421: Ctrl-C at the selection
SelectInterrupt ==
    /\ pc = "select"
    /\ Except("KeyboardInterrupt", "KeyboardInterrupt")
    /\ interrupts' = interrupts \cup {"select"}
    /\ usernames' = <<>>
    /\ UNCHANGED <<TEMPLATE, automatic, random_domain, address,
                   domain_to_use, posted, rejected>>
    /\ UNCHANGED <<genvars, rndvars>>

\* lines 425-427: the text entered, and validate_username on it
Text ==
    /\ pc = "text"
    /\ \E t \in Texts(MaxTypedLen) :
        /\ rejected' = (rejected \/ validate_username(t) = "SystemExit")
        /\ IF validate_username(t) = "SystemExit"
           THEN Except("SystemExit", "SystemExit: not valid")
                /\ UNCHANGED address
           ELSE /\ address' = t
                /\ pc' = "confirm"
                /\ UNCHANGED raised
    /\ UNCHANGED <<TEMPLATE, automatic, random_domain, domain_to_use,
                   usernames, posted, interrupts>>
    /\ UNCHANGED <<genvars, rndvars>>

\* line 427: Ctrl-C at the text prompt
TextInterrupt ==
    /\ pc = "text"
    /\ Except("KeyboardInterrupt", "KeyboardInterrupt")
    /\ interrupts' = interrupts \cup {"text"}
    /\ UNCHANGED <<TEMPLATE, automatic, random_domain, address,
                   domain_to_use, usernames, posted, rejected>>
    /\ UNCHANGED <<genvars, rndvars>>

\* lines 137-142: the answer to 'Do you want to use ...?'
Confirm ==
    /\ pc = "confirm"
    /\ \E yes \in BOOLEAN :
         IF yes
         THEN UNCHANGED <<address, domain_to_use>>
         ELSE address' = None /\ domain_to_use' = "None"
    /\ pc' = "while"
    /\ UNCHANGED <<TEMPLATE, automatic, random_domain, usernames, raised, posted, rejected, interrupts>>
    /\ UNCHANGED <<genvars, rndvars>>

\* lines 143-144: Ctrl-C at the confirmation
ConfirmInterrupt ==
    /\ pc = "confirm"
    /\ interrupts' = interrupts \cup {"confirm"}
    /\ IF confirm_except("KeyboardInterrupt") = "SystemExit"
       THEN /\ pc' = "exit"
            /\ raised' = "SystemExit: User exited."
       ELSE IF confirm_except("KeyboardInterrupt") = "propagate"
            THEN /\ pc' = "exit"
                 /\ raised' = "KeyboardInterrupt"
            ELSE /\ pc' = "while"
                 /\ UNCHANGED raised
    /\ UNCHANGED <<address, domain_to_use>>
    /\ UNCHANGED <<TEMPLATE, automatic, random_domain, usernames, posted, rejected>>
    /\ UNCHANGED <<genvars, rndvars>>

\* lines 146-156: the create-alias request and its answer
Post ==
    /\ pc = "post"
    /\ posted' = TRUE
    /\ \E status \in {"ok", "HTTPError"} :
         IF status = "ok"
         THEN pc' = "done" /\ UNCHANGED raised
         ELSE pc' = "exit" /\ raised' = "SystemExit: HTTPError"
    /\ UNCHANGED <<TEMPLATE, automatic, random_domain, address,
                   domain_to_use, usernames, rejected,
                   interrupts>>
    /\ UNCHANGED <<genvars, rndvars>>

InitAdd ==
    /\ TEMPLATE \in AddTemplates
    /\ automatic \in BOOLEAN
    /\ random_domain \in BOOLEAN
    /\ pc = "start" /\ address = None /\ domain_to_use = "None"
    /\ usernames = <<>> /\ raised = "none"
    /\ posted = FALSE /\ rejected = FALSE /\ interrupts = {}
    /\ GenIdle /\ RndIdle

NextAdd ==
    \/ Start \/ While \/ PickDomain \/ PickUsername \/ Choices \/ Fill
    \/ Generate \/ Insert \/ GenerateRaised \/ Fallback
    \/ Select \/ SelectInterrupt \/ Text \/ TextInterrupt
    \/ Confirm \/ ConfirmInterrupt \/ Post

SpecAdd == InitAdd /\ [][NextAdd]_vars

----------------------------------------------------------------------------
(* Properties: generate_realish_name *)

Count(s, c) == Cardinality({i \in DOMAIN s : s[i] = c})

\* the for loop is at or past parts[i]: its while body has run
Processed(i) == i < idx \/ (i = idx /\ gpc \in {"ValueError", "TypeError"})

\* a number placeholder with explicit numeric bounds, {number:U} or
\* {number:L:U}
HasBounds(p) ==
    LET toks == split(p, ":") IN
    /\ toks[1] = number
    /\ Len(toks) \in {2, 3}
    /\ \A i \in 2..Len(toks) : IsInt(toks[i])

DeclaredLow(p) ==
    LET toks == split(p, ":") IN IF Len(toks) = 3 THEN int(toks[2]) ELSE 0

DeclaredHigh(p) == LET toks == split(p, ":") IN int(toks[Len(toks)])

\* C1: every number placeholder with explicit numeric bounds that the pass
\* has processed got a value v with L <= v <= U ({number:L:U}) or
\* 0 <= v <= U ({number:U}).
C1_ValueInDeclaredRange ==
    \A i \in DOMAIN parts :
        (HasBounds(parts[i]) /\ Processed(i)) =>
            /\ i \in DOMAIN accepted
            /\ IsInt(accepted[i])
            /\ DeclaredLow(parts[i]) <= int(accepted[i])
            /\ int(accepted[i]) <= DeclaredHigh(parts[i])

\* C2: at every point of the pass the list of accepted fragments of each part
\* kind holds no fragment twice.
C2_NoDuplicateFragments ==
    \A k \in KnownKinds :
        \A i, j \in DOMAIN known[k] : i # j => known[k][i] # known[k][j]

\* two fragments of one kind are accepted and the draw for a third
\* placeholder of that kind has just collided with one of them
C2_Witness ==
    /\ gpc = "while"
    /\ Len(known[part[1]]) >= 2
    /\ generated \in Range(known[part[1]])

\* C3: the call returns only a string that matches the local-part grammar of
\* validate_username, and a string that does not match ends the call with
\* SystemExit.
C3_ReturnsOnlyValid ==
    /\ gpc = "returned" => fullmatch_username(template)
    /\ gpc = "SystemExit" => ~fullmatch_username(template)

\* a rendered template with a placeholder replaced was rejected
C3_Witness ==
    /\ gpc = "SystemExit"
    /\ \E i \in DOMAIN accepted : accepted[i] # None

\* the for loop has ended: template is the rendered string
Rendered == gpc \in {"normalize", "validate", "returned", "SystemExit"}

AllRecognized == \A i \in DOMAIN parts : split(parts[i], ":")[1] \in KnownKinds

NoBrace(s) == \A i \in DOMAIN s : s[i] \notin {"{", "}"}

OnlyPlaceholderBraces ==
    /\ Count(arg, "{") = Len(parts)
    /\ Count(arg, "}") = Len(parts)

RECURSIVE RenderInPlace(_, _, _, _)
RenderInPlace(t, i, frags, k) ==
    IF i > Len(t) THEN <<>>
    ELSE IF t[i] = "{"
         THEN LET j == RunEnd(t, i + 1, PlaceholderChars) IN
              IF j > i /\ j + 1 <= Len(t) /\ t[j + 1] = "}"
              THEN (IF k <= Len(frags) /\ frags[k] # None
                    THEN frags[k]
                    ELSE SubSeq(t, i, j + 1))
                   \o RenderInPlace(t, j + 2, frags, k + 1)
              ELSE <<t[i]>> \o RenderInPlace(t, i + 1, frags, k)
         ELSE <<t[i]>> \o RenderInPlace(t, i + 1, frags, k)

\* C9: at every point of the rendering the i-th recognized placeholder found
\* by the parser is the one replaced by the i-th fragment, and all other text
\* of the template is unchanged.
C9_ReplacedWhereFound ==
    gpc \in {"for", "while", "normalize"} =>
        template = RenderInPlace(arg, 1, accepted, 1)

\* the kind of the i-th part of template t
KindAt(t, i) == split(findall(t)[i], ":")[1]

\* the recognized placeholders of kind k in template t
OfKind(t, k) == {i \in DOMAIN findall(t) : KindAt(t, i) = k}

\* the distinct fragments available for kind k in template t
Available(t, k) ==
    UNION {candidates(split(findall(t)[i], ":")) : i \in OfKind(t, k)}

\* each part kind has at most as many placeholders as distinct fragments
CountFeasible(t) ==
    \A k \in KnownKinds :
        Cardinality(OfKind(t, k)) <= Cardinality(Available(t, k))

\* no draw can end the while loop: it retries without end
Stuck ==
    /\ gpc = "while"
    /\ body_exception(part) = "none"
    /\ \A g \in candidates(part) : loop_again(g, known[part[1]])

\* C8 as claimed: when each part kind has at most as many placeholders as
\* there are distinct fragments available for it, the call is never in a
\* while loop that no draw can end.
C8_NeverStuckWhenCountFeasible == CountFeasible(arg) => ~Stuck

\* each recognized placeholder whose while body raises nothing can draw more
\* distinct fragments than the template has placeholders of its kind before it
PlaceholderFeasible(t) ==
    \A i \in DOMAIN findall(t) :
        LET toks == split(findall(t)[i], ":") IN
        (toks[1] \in KnownKinds /\ body_exception(toks) = "none") =>
            Cardinality(candidates(toks)) >
                Cardinality({j \in OfKind(t, toks[1]) : j < i})

\* C8 amended: under fair draws the call ends (a name, SystemExit or another
\* exception) whenever every placeholder can draw more distinct fragments
\* than there are placeholders of its kind before it; and it returns a name
\* only if each kind has at most as many placeholders as fragments available.
C8_TerminatesWhenPlaceholderFeasible ==
    /\ [](gpc = "returned" => CountFeasible(arg))
    /\ (gpc = "call" /\ PlaceholderFeasible(arg)) ~> GenDone

\* a draw collided in a template whose every placeholder can be satisfied:
\* the loop retries
C8_Witness ==
    /\ gpc = "while"
    /\ PlaceholderFeasible(arg)
    /\ generated \in Range(known[part[1]])

----------------------------------------------------------------------------
(* Properties: the add command *)

\* C4: once validate_username has rejected a username, generated or typed,
\* the command aborts with that SystemExit and sends no create-alias request.
C4_RejectionAborts ==
    rejected =>
        /\ ~posted
        /\ \/ pc = "exit" /\ raised = "SystemExit: not valid"
           \/ pc = "generating" /\ gpc = "SystemExit"

\* the command has aborted on a rejected username
C4_Witness == rejected /\ pc = "exit" /\ raised = "SystemExit: not valid"

\* C10 as claimed: once the user has interrupted at the username selection,
\* at the manual-entry prompt or at the confirmation, no alias is created.
C10_InterruptCancels ==
    (interrupts \cap {"select", "text", "confirm"} # {}) => ~posted

\* C10 amended: an interrupt at the confirmation prompt cancels the command
\* and no alias is created afterwards; an interrupt at the username selection
\* or at the manual-entry prompt does not end the command: the handler of
\* pick_username is entered, which returns a generated mailcow username.
C10_ConfirmInterruptCancels ==
    /\ "confirm" \in interrupts =>
          (pc = "exit" /\ raised = "SystemExit: User exited." /\ ~posted)
    /\ pc = "fallback" => (raised = "none" /\ ~posted)

\* the user interrupted a prompt of pick_username, the flow went on, and the
\* interrupt at the confirmation then cancelled it
C10_Witness ==
    /\ "confirm" \in interrupts
    /\ interrupts \cap {"select", "text"} # {}

----------------------------------------------------------------------------
(* Properties: the readable strings and the validator *)

\* consonant, vowel, consonant, vowel, ...
Alternates(s) ==
    \A i \in DOMAIN s :
        IF i % 2 = 1 THEN s[i] \in Range(CONSONANTS)
        ELSE s[i] \in Range(VOWELS)

\* C6: readable_random_string(n) for an even n returns n characters that
\* alternate consonant and vowel, starting with a consonant, and no dot;
\* generate_mailcow_username returns two such blocks joined by its one dot.
C6_ReadableAlternates ==
    /\ (fn = "readable_random_string" /\ length % 2 = 0) =>
          /\ Len(result) = length
          /\ Alternates(result)
          /\ Count(result, ".") = 0
    /\ fn = "generate_mailcow_username" =>
          /\ Count(result, ".") = 1
          /\ \A b \in DOMAIN split(result, ".") :
                /\ Alternates(split(result, ".")[b])
                /\ Len(split(result, ".")[b]) % 2 = 0
                /\ Len(split(result, ".")[b]) >= 2

\* readable_random_string(6) has returned
C6_Witness ==
    fn = "readable_random_string" /\ length = 6 /\ Len(result) = 6

\* dot-separated non-empty atoms, all over the character set of the first atom
SameSetAtoms(s) ==
    LET atoms == split(s, ".") IN
    \A i \in DOMAIN atoms :
        Len(atoms[i]) >= 1 /\ Range(atoms[i]) \subseteq AtomFirst

\* C7: validate_username accepts a string exactly when it is a dot-separated
\* sequence of non-empty atoms over one and the same character set, or a
\* quoted string; every other string is rejected with SystemExit.
C7_AcceptsExactlyTheGrammar ==
    fn = "validate_username" =>
        (verdict = "returned" <=> (SameSetAtoms(typed) \/ quoted(typed)))

=============================================================================
